---- MODULE Spec2Model ----
(***************************************************************************)
(* A model of braket.aws.aws_session.AwsSession: the S3 URI functions      *)
(* (parse_s3_uri, is_s3_uri, construct_s3_uri), the prefix upload           *)
(* (upload_local_data, upload_to_s3), the S3 copies (copy_s3_object,        *)
(* copy_s3_directory, list_keys), default_bucket with the bucket creation,  *)
(* search_devices and add_braket_user_agent.                                *)
(*                                                                         *)
(* A Python str is a sequence of one-character strings; "\n" is the line    *)
(* feed.  A call's outcome is a record [kind, exc, val]: kind "return"      *)
(* with the returned values in val, or kind "raise" with the exception's    *)
(* type in exc.                                                             *)
(***************************************************************************)
EXTENDS Integers, Sequences, FiniteSets, TLC

VARIABLES
    pc,      \* "ready": the inputs are chosen, no call made; "done": the call returned or raised
    op,      \* the method called ("none" before the call)
    arg,     \* the call's arguments
    ret,     \* the call's outcome
    trace,   \* the parse_s3_uri calls and the S3 client requests the call made, in order
    fs,      \* the local file system: the regular files, in the order directory scans yield them
    s3,      \* the object store: the keys of the listed bucket, in the order S3 lists them
    ctor,    \* the arguments the session was constructed with
    environ, \* os.environ: the value of AMZN_BRAKET_OUT_S3_BUCKET (None when unset)
    self     \* the session's fields

vars == <<pc, op, arg, ret, trace, fs, s3, ctor, environ, self>>

(***************************************************************************)
(* Bounds of the model.                                                    *)
(***************************************************************************)
\* characters in the arguments of construct_s3_uri, bucket and segments together
MaxLen == 4
\* segments passed to construct_s3_uri
MaxDirs == 2
\* tokens after the scheme in the strings given to parse_s3_uri and is_s3_uri
MaxBody == 4
\* characters in the bucket, host and key a URI of either form is built from
MaxPart == 4

(***************************************************************************)
(* The session object.                                                     *)
(*                                                                         *)
(* None stands for Python's None and for the empty str: the truth tests of  *)
(* __init__ and default_bucket (bool(x), x or y, if x) do not tell them     *)
(* apart.  A bucket name is the sequence of the pieces it is written from.  *)
(***************************************************************************)
None == <<>>

\* the arguments of AwsSession(...): default_bucket (the clients and config are defaults)
CtorArg(default_bucket) == [default_bucket |-> default_bucket]

\* _update_user_agent: "BraketSdk/<v> BraketSchemas/<v> NotebookInstance/<v>"
\* (versions written 1, no notebook instance)
_update_user_agent ==
    <<"B", "r", "a", "k", "e", "t", "S", "d", "k", "/", "1", " ", "B", "r", "a", "k", "e", "t", "S", "c", "h", "e", "m", "a", "s", "/", "1", " ", "N", "o", "t", "e", "b", "o", "o", "k", "I", "n", "s", "t", "a", "n", "c", "e", "/", "N", "o", "n", "e">>

\* AwsSession.__init__: the fields of the new session, for the constructor's
\* default_bucket, the environment's AMZN_BRAKET_OUT_S3_BUCKET and the boto
\* session's region
AwsSession(default_bucket, out_s3_bucket, region_name) ==
    [region |-> region_name,
     _braket_user_agents |-> _update_user_agent,
     braket_client |-> [user_agent_extra |-> _update_user_agent],
     _custom_default_bucket |-> default_bucket # None,
     _default_bucket |-> IF default_bucket # None THEN default_bucket ELSE out_s3_bucket,
     _account_id |-> None]

\* a session constructed without arguments, in an environment without a job bucket
DefaultSession ==
    /\ ctor = CtorArg(None)
    /\ environ = None
    /\ self = AwsSession(None, None, "us-west-2")

(***************************************************************************)
(* Strings.                                                                *)
(***************************************************************************)
LF == "\n"

RECURSIVE StrOfLen(_, _)
\* the strings of exactly n characters over the alphabet
StrOfLen(alphabet, n) ==
    IF n = 0 THEN {<<>>}
    ELSE {<<c>> \o s : c \in alphabet, s \in StrOfLen(alphabet, n - 1)}

RECURSIVE Concat(_)
\* the concatenation of a sequence of strings
Concat(ss) == IF ss = <<>> THEN <<>> ELSE Head(ss) \o Concat(Tail(ss))

StartsWith(s, p) == Len(p) <= Len(s) /\ SubSeq(s, 1, Len(p)) = p

\* s[from..to] is one or more characters, none of them excluded: [^...]+
Run(s, from, to, excluded) ==
    from <= to /\ \A p \in from..to : s[p] \notin excluded

\* s holds the literal lit at position from
Lit(s, from, lit) ==
    from + Len(lit) - 1 <= Len(s) /\ SubSeq(s, from, from + Len(lit) - 1) = lit

(***************************************************************************)
(* Outcomes.                                                               *)
(***************************************************************************)
Return(v) == [kind |-> "return", exc |-> "", val |-> v]
Raise(e) == [kind |-> "raise", exc |-> e, val |-> <<>>]
NoOutcome == [kind |-> "none", exc |-> "", val |-> <<>>]

(***************************************************************************)
(* parse_s3_uri: the two regular expressions, matched with re.match.       *)
(*   ^https://([^./]+)\.[sS]3\.[^/]+/(.+)$   and   ^[sS]3://([^./]+)/(.+)$   *)
(***************************************************************************)
\* [^./]: the characters the class excludes
NotDotSlash == {".", "/"}
\* [^/]
NotSlash == {"/"}
\* . (re.DOTALL is not set: any character but the line feed)
AnyButLF == {LF}
\* $ (re.MULTILINE is not set): the end of the string, or just before a line feed that ends it
AtEnd(s, j) == j = Len(s) \/ (j = Len(s) - 1 /\ s[Len(s)] = LF)

\* /(.+)$ from position p: the ends j of group 2, which starts at p + 1
KeyEnds(s, p) ==
    IF p <= Len(s) /\ s[p] = "/"
    THEN {j \in (p + 1)..Len(s) : Run(s, p + 1, j, AnyButLF) /\ AtEnd(s, j)}
    ELSE {}

Max(S) == CHOOSE x \in S : \A y \in S : y <= x

\* the (bucket, key) groups of the ways the virtual-hosted pattern matches s
VirtualHostedMatches(s, bucketClass) ==
    IF ~Lit(s, 1, <<"h", "t", "t", "p", "s", ":", "/", "/">>) THEN {}
    ELSE UNION {
        UNION {
            {<<SubSeq(s, 9, i), SubSeq(s, m + 2, j)>> : j \in KeyEnds(s, m + 1)}
            : m \in {m \in (i + 5)..Len(s) : Run(s, i + 5, m, NotSlash)} }
        : i \in {i \in 9..Len(s) :
                   /\ Run(s, 9, i, bucketClass)
                   /\ Lit(s, i + 1, <<".">>)
                   /\ i + 2 <= Len(s) /\ s[i + 2] \in {"s", "S"}
                   /\ Lit(s, i + 3, <<"3", ".">>)} }

\* the (bucket, key) groups of the ways the path-style pattern matches s
PathStyleMatches(s, bucketClass) ==
    IF ~(Len(s) >= 1 /\ s[1] \in {"s", "S"} /\ Lit(s, 2, <<"3", ":", "/", "/">>)) THEN {}
    ELSE UNION {
        {<<SubSeq(s, 6, i), SubSeq(s, i + 2, j)>> : j \in KeyEnds(s, i + 1)}
        : i \in {i \in 6..Len(s) : Run(s, 6, i, bucketClass)} }

\* re.match(virtual-hosted) or re.match(path-style): the groups of the match
\* (both quantifiers are greedy: the longest bucket, then the longest key), or {} for None
s3_uri_match(s, bucketClass) ==
    LET first == VirtualHostedMatches(s, bucketClass)
        all == IF first # {} THEN first ELSE PathStyleMatches(s, bucketClass)
        blen == Max({Len(g[1]) : g \in all})
        klen == Max({Len(g[2]) : g \in {h \in all : Len(h[1]) = blen}})
    IN  {g \in all : Len(g[1]) = blen /\ Len(g[2]) = klen}

\* the bucket class written [^/]: dotted bucket names accepted
parse_s3_uri_dotted(s3_uri) ==
    LET m == s3_uri_match(s3_uri, NotSlash)
    IN  IF m = {} THEN Raise("ValueError") ELSE Return(CHOOSE g \in m : TRUE)

\* AwsSession.parse_s3_uri: (bucket, key), or ValueError when neither pattern matches
\* (the AssertionError raised for a None match is caught and re-raised as ValueError)
parse_s3_uri(s3_uri) ==
    LET m == s3_uri_match(s3_uri, NotDotSlash)
    IN  IF m = {} THEN Raise("ValueError") ELSE Return(CHOOSE g \in m : TRUE)

\* is_s3_uri without the try/except around the parse
is_s3_uri_uncaught(string) ==
    LET r == parse_s3_uri(string)
    IN  IF r.kind = "raise" THEN r ELSE Return(<<TRUE>>)

\* AwsSession.is_s3_uri: False when the parse raises ValueError (any other
\* exception propagates), True otherwise
is_s3_uri(string) ==
    LET r == parse_s3_uri(string)
    IN  IF r.kind = "raise"
        THEN IF r.exc = "ValueError" THEN Return(<<FALSE>>) ELSE r
        ELSE Return(<<TRUE>>)

(***************************************************************************)
(* construct_s3_uri.                                                       *)
(***************************************************************************)
RECURSIVE Join(_, _)
\* sep.join(parts)
Join(sep, parts) ==
    IF parts = <<>> THEN <<>>
    ELSE IF Len(parts) = 1 THEN parts[1]
    ELSE parts[1] \o sep \o Join(sep, Tail(parts))

\* construct_s3_uri without the check for an empty *dirs
construct_s3_uri_unchecked(bucket, dirs) ==
    Return(<<<<"s", "3", ":", "/", "/">> \o bucket \o <<"/">> \o Join(<<"/">>, dirs)>>)

\* construct_s3_uri with the segments concatenated, not joined by "/"
construct_s3_uri_unjoined(bucket, dirs) ==
    IF dirs = <<>> THEN Raise("ValueError")
    ELSE Return(<<<<"s", "3", ":", "/", "/">> \o bucket \o <<"/">> \o Concat(dirs)>>)

\* AwsSession.construct_s3_uri(bucket, *dirs)
construct_s3_uri(bucket, dirs) ==
    IF dirs = <<>> THEN Raise("ValueError")
    ELSE Return(<<<<"s", "3", ":", "/", "/">> \o bucket \o <<"/">> \o Join(<<"/">>, dirs)>>)

(***************************************************************************)
(* The URI functions as calls: construct_s3_uri on (bucket, *dirs) and the *)
(* parse of what it returned; parse_s3_uri and is_s3_uri on a string.      *)
(***************************************************************************)
\* the characters of the arguments: a letter, the dot, the slash and the line feed
Chars == {"a", ".", "/", LF}

RECURSIVE DirsOf(_, _)
\* the tuples of k segments with t characters in all
DirsOf(k, t) ==
    IF k = 0 THEN (IF t = 0 THEN {<<>>} ELSE {})
    ELSE UNION {{<<s>> \o d : s \in StrOfLen(Chars, l), d \in DirsOf(k - 1, t - l)}
                : l \in 0..t}

InitConstruct ==
    /\ DefaultSession
    /\ pc = "ready" /\ op = "none" /\ ret = NoOutcome
    /\ arg = [bucket |-> <<>>, dirs |-> <<>>, s3_uri |-> <<>>]
    /\ trace = <<>> /\ fs = <<>> /\ s3 = <<>>

\* the call construct_s3_uri(bucket, *dirs), for every bucket and up to MaxDirs
\* segments of MaxLen characters in all
ConstructS3Uri ==
    /\ pc = "ready"
    /\ \E t \in 0..MaxLen, k \in 0..MaxDirs : \E lb \in 0..t :
         \E bucket \in StrOfLen(Chars, lb), dirs \in DirsOf(k, t - lb) :
            /\ arg' = [bucket |-> bucket, dirs |-> dirs, s3_uri |-> <<>>]
            /\ ret' = construct_s3_uri(bucket, dirs)
    /\ op' = "construct_s3_uri"
    /\ pc' = "done"
    /\ UNCHANGED <<ctor, environ, self, trace, fs, s3>>

\* the call parse_s3_uri(u) on the u that construct_s3_uri returned
ParseConstructed ==
    /\ pc = "done" /\ op = "construct_s3_uri" /\ ret.kind = "return"
    /\ op' = "parse_s3_uri"
    /\ arg' = [arg EXCEPT !.s3_uri = ret.val[1]]
    /\ ret' = parse_s3_uri(ret.val[1])
    /\ UNCHANGED <<ctor, environ, self, pc, trace, fs, s3>>

NextConstruct == ConstructS3Uri \/ ParseConstructed

SpecConstruct == InitConstruct /\ [][NextConstruct]_vars

\* what a string given to the parse starts with
Schemes ==
    { <<>>,
      <<"s", "3", ":", "/", "/">>,
      <<"S", "3", ":", "/", "/">>,
      <<"s", "3", ":", "/">>,
      <<"x", "s", "3", ":", "/", "/">>,
      <<"h", "t", "t", "p", "s", ":", "/", "/">>,
      <<"h", "t", "t", "p", "s", ":", "/", "/", "a", ".", "s", "3", ".">>,
      <<"h", "t", "t", "p", "s", ":", "/", "/", "a", ".", "S", "3", ".">>,
      <<"h", "t", "t", "p", "s", ":", "/", "/", "a", ".", "s", "3">>,
      <<"h", "t", "t", "p", ":", "/", "/", "a", ".", "s", "3", ".">> }

\* what follows it is made of
Tokens == {<<"a">>, <<".">>, <<"/">>, <<LF>>, <<"s", "3">>}

RECURSIVE Bodies(_)
\* the concatenations of n tokens
Bodies(n) ==
    IF n = 0 THEN {<<>>} ELSE {t \o b : t \in Tokens, b \in Bodies(n - 1)}

\* arg.form tells how the string was made: "string" for a scheme and tokens,
\* "virtual-hosted" or "path-style" for a URI built from arg.bucket, arg.host, arg.key
UriArg(form, u, b, h, k) ==
    [form |-> form, s3_uri |-> u, bucket |-> b, host |-> h, key |-> k]

InitUri ==
    /\ DefaultSession
    /\ pc = "ready" /\ op = "none" /\ ret = NoOutcome
    /\ arg = UriArg("none", <<>>, <<>>, <<>>, <<>>)
    /\ trace = <<>> /\ fs = <<>> /\ s3 = <<>>

\* the call parse_s3_uri(s3_uri), for every scheme followed by up to MaxBody tokens
ParseS3Uri ==
    /\ pc = "ready"
    /\ \E s \in Schemes, n \in 0..MaxBody : \E b \in Bodies(n) :
          /\ arg' = UriArg("string", s \o b, <<>>, <<>>, <<>>)
          /\ ret' = parse_s3_uri(s \o b)
    /\ op' = "parse_s3_uri"
    /\ pc' = "done"
    /\ UNCHANGED <<ctor, environ, self, trace, fs, s3>>

\* the call is_s3_uri(string), for the same strings
IsS3Uri ==
    /\ pc = "ready"
    /\ \E s \in Schemes, n \in 0..MaxBody : \E b \in Bodies(n) :
          /\ arg' = UriArg("string", s \o b, <<>>, <<>>, <<>>)
          /\ ret' = is_s3_uri(s \o b)
    /\ op' = "is_s3_uri"
    /\ pc' = "done"
    /\ UNCHANGED <<ctor, environ, self, trace, fs, s3>>

\* the characters of a bucket (neither "." nor "/") and of a host suffix (no "/")
BucketChars == Chars \ {".", "/"}
HostChars == Chars \ {"/"}

\* the call parse_s3_uri("https://<b>.<s3>.<h>/<k>") for non-empty b, h and k of
\* MaxPart characters in all, <s3> in either letter case
ParseObjectUrl ==
    /\ pc = "ready"
    /\ \E lb \in 1..MaxPart, lh \in 1..MaxPart, lk \in 1..MaxPart, tok \in {"s", "S"} :
          /\ lb + lh + lk <= MaxPart
          /\ \E b \in StrOfLen(BucketChars, lb), h \in StrOfLen(HostChars, lh),
                k \in StrOfLen(Chars, lk) :
                LET u == <<"h", "t", "t", "p", "s", ":", "/", "/">> \o b
                         \o <<".", tok, "3", ".">> \o h \o <<"/">> \o k
                IN  /\ arg' = UriArg("virtual-hosted", u, b, h, k)
                    /\ ret' = parse_s3_uri(u)
    /\ op' = "parse_s3_uri"
    /\ pc' = "done"
    /\ UNCHANGED <<ctor, environ, self, trace, fs, s3>>

\* the call parse_s3_uri("<s3>://<b>/<k>") for non-empty b and k of MaxPart characters in all
ParsePathStyle ==
    /\ pc = "ready"
    /\ \E lb \in 1..MaxPart, lk \in 1..MaxPart, tok \in {"s", "S"} :
          /\ lb + lk <= MaxPart
          /\ \E b \in StrOfLen(BucketChars, lb), k \in StrOfLen(Chars, lk) :
                LET u == <<tok, "3", ":", "/", "/">> \o b \o <<"/">> \o k
                IN  /\ arg' = UriArg("path-style", u, b, <<>>, k)
                    /\ ret' = parse_s3_uri(u)
    /\ op' = "parse_s3_uri"
    /\ pc' = "done"
    /\ UNCHANGED <<ctor, environ, self, trace, fs, s3>>

NextUri == ParseS3Uri \/ IsS3Uri \/ ParseObjectUrl \/ ParsePathStyle

SpecUri == InitUri /\ [][NextUri]_vars

(***************************************************************************)
(* upload_local_data and upload_to_s3.                                     *)
(*                                                                         *)
(* fs lists the regular files, each by its path from the root directory,   *)
(* which is also the working directory; the directories are the ancestors  *)
(* of the files.  The order of fs is the order in which scanning the       *)
(* directories yields the files.  The file names and prefixes of the model  *)
(* hold no "?", "[" or "*" and no line feed.                                *)
(***************************************************************************)
\* files the file system may hold
MaxFiles == 3

RECURSIVE Split(_)
\* s.split("/")
Split(s) ==
    IF ~(\E p \in 1..Len(s) : s[p] = "/") THEN <<s>>
    ELSE LET i == CHOOSE p \in 1..Len(s) : s[p] = "/" /\ \A q \in 1..(p - 1) : s[q] # "/"
         IN  <<SubSeq(s, 1, i - 1)>> \o Split(SubSeq(s, i + 1, Len(s)))

\* the names pathlib keeps of a path or pattern: no empty name, no "."
PathParts(s) == SelectSeq(Split(s), LAMBDA n : n # <<>> /\ n # <<".">>)

\* Path(s).is_absolute()
is_absolute(s) == s # <<>> /\ s[1] = "/"

\* str(Path(s).relative_to(Path(s).anchor)) of an absolute s
relative_to_anchor(s) ==
    IF PathParts(s) = <<>> THEN <<".">> ELSE Join(<<"/">>, PathParts(s))

\* Path(s).as_posix()
as_posix(s) ==
    IF is_absolute(s) THEN <<"/">> \o Join(<<"/">>, PathParts(s))
    ELSE relative_to_anchor(s)

RECURSIVE replace(_, _, _, _)
\* s.replace(old, new, count): the first count occurrences of old, from the left and
\* not overlapping, replaced by new; every occurrence when count is -1
replace(s, old, new, count) ==
    IF count = 0 THEN s
    ELSE IF old = <<>>
    THEN IF s = <<>> THEN new
         ELSE new \o <<Head(s)>> \o replace(Tail(s), old, new, count - 1)
    ELSE IF s = <<>> THEN s
    ELSE IF StartsWith(s, old)
    THEN new \o replace(SubSeq(s, Len(old) + 1, Len(s)), old, new, count - 1)
    ELSE <<Head(s)>> \o replace(Tail(s), old, new, count)

RECURSIVE fnmatch(_, _)
\* fnmatch of a name against one name of a pattern: "*" stands for any characters
fnmatch(name, pat) ==
    IF pat = <<>> THEN name = <<>>
    ELSE IF Head(pat) = "*"
    THEN fnmatch(name, Tail(pat)) \/ (name # <<>> /\ fnmatch(Tail(name), pat))
    ELSE name # <<>> /\ Head(name) = Head(pat) /\ fnmatch(Tail(name), Tail(pat))

RECURSIVE Selects(_, _, _)
\* the names pats of a pattern select the entry with the names parts: "**" stands
\* for any number of directories, any other name for one entry that matches it
Selects(pats, parts, isFile) ==
    IF pats = <<>> THEN parts = <<>>
    ELSE IF Head(pats) = <<"*", "*">>
    THEN \/ Selects(Tail(pats), parts, isFile)
         \/ /\ parts # <<>>
            /\ Len(parts) > 1 \/ ~isFile
            /\ Selects(pats, Tail(parts), isFile)
    ELSE /\ parts # <<>>
         /\ fnmatch(Head(parts), Head(pats))
         /\ Selects(Tail(pats), Tail(parts), isFile)

\* the directories above an entry, outermost first
Ancestors(parts) == [i \in 1..(Len(parts) - 1) |-> SubSeq(parts, 1, i)]

RECURSIVE Scan(_)
\* the entries of the file system in the order of the scan: each file, after those
\* of its directories that no earlier file has shown
Scan(files) ==
    IF files = <<>> THEN <<>>
    ELSE LET before == Scan(SubSeq(files, 1, Len(files) - 1))
             parts == PathParts(files[Len(files)])
             fresh == SelectSeq(Ancestors(parts),
                                LAMBDA d : \A i \in 1..Len(before) : before[i].parts # d)
         IN  before \o [i \in 1..Len(fresh) |-> [parts |-> fresh[i], isFile |-> FALSE]]
                    \o <<[parts |-> parts, isFile |-> TRUE]>>

\* base_dir.glob(pattern): the paths of the entries the pattern selects, below
\* base_dir "/" or relative to the working directory (base_dir "")
glob(files, base_dir, pattern) ==
    LET hits == SelectSeq(Scan(files),
                          LAMBDA e : Selects(PathParts(pattern), e.parts, e.isFile))
    IN  [i \in 1..Len(hits) |-> base_dir \o Join(<<"/">>, hits[i].parts)]

\* file.is_file(): path is a regular file
is_file(files, path) ==
    \E i \in 1..Len(files) : PathParts(files[i]) = PathParts(path)

\* a parse_s3_uri call, and a request to the S3 client, as the trace records them
Parsed(s3_uri) == [call |-> "parse_s3_uri", args |-> <<s3_uri>>, token |-> 0]
UploadFile(filename, bucket, key) ==
    [call |-> "upload_file", args |-> <<filename, bucket, key>>, token |-> 0]

\* AwsSession.upload_to_s3(filename, s3_uri): the trace and the outcome of the call
upload_to_s3(filename, s3_uri) ==
    LET parsed == parse_s3_uri(s3_uri)
    IN  IF parsed.kind = "raise"
        THEN [trace |-> <<Parsed(s3_uri)>>, ret |-> parsed]
        ELSE [trace |-> <<Parsed(s3_uri),
                          UploadFile(filename, parsed.val[1], parsed.val[2])>>,
              ret |-> Return(<<>>)]

\* the s3_uri of upload_local_data's loop body:
\* str(file.as_posix()).replace(str(Path(local_prefix).as_posix()), s3_prefix)
remote_uri(file, local_prefix, s3_prefix) ==
    replace(file, as_posix(local_prefix), s3_prefix, -1)

RECURSIVE upload_each(_, _, _, _)
\* the for loop of upload_local_data over the globbed paths: the regular files are
\* uploaded one after the other, and an exception ends the loop
upload_each(files, paths, local_prefix, s3_prefix) ==
    IF paths = <<>> THEN [trace |-> <<>>, ret |-> Return(<<>>)]
    ELSE IF ~is_file(files, Head(paths))
    THEN upload_each(files, Tail(paths), local_prefix, s3_prefix)
    ELSE LET one == upload_to_s3(Head(paths), remote_uri(Head(paths), local_prefix, s3_prefix))
             rest == upload_each(files, Tail(paths), local_prefix, s3_prefix)
         IN  IF one.ret.kind = "raise" THEN one
             ELSE [trace |-> one.trace \o rest.trace, ret |-> rest.ret]

\* AwsSession.upload_local_data(local_prefix, s3_prefix)
upload_local_data(files, local_prefix, s3_prefix) ==
    LET base_dir == IF is_absolute(local_prefix) THEN <<"/">> ELSE <<>>
        relative_prefix ==
            IF is_absolute(local_prefix) THEN relative_to_anchor(local_prefix)
            ELSE local_prefix
    IN  upload_each(files,
                    glob(files, base_dir, relative_prefix \o <<"*">>)
                    \o glob(files, base_dir,
                            relative_prefix \o <<"*", "/", "*", "*", "/", "*">>),
                    local_prefix, s3_prefix)

\* the files of the docstring's example, and two that hold the prefix "input" twice
input_csv == <<"i", "n", "p", "u", "t", ".", "c", "s", "v">>
input_2_csv == <<"i", "n", "p", "u", "t", "-", "2", ".", "c", "s", "v">>
input_data_txt == <<"i", "n", "p", "u", "t", "/", "d", "a", "t", "a", ".", "t", "x", "t">>
input_dir_data_csv == <<"i", "n", "p", "u", "t", "-", "d", "i", "r", "/", "d", "a", "t", "a", ".", "c", "s", "v">>
my_input_csv == <<"m", "y", "-", "i", "n", "p", "u", "t", ".", "c", "s", "v">>
my_dir_input_csv == <<"m", "y", "-", "d", "i", "r", "/", "i", "n", "p", "u", "t", ".", "c", "s", "v">>
input_input_csv == <<"i", "n", "p", "u", "t", "/", "i", "n", "p", "u", "t", ".", "c", "s", "v">>
input_sub_input_csv == <<"i", "n", "p", "u", "t", "/", "s", "u", "b", "/", "i", "n", "p", "u", "t", ".", "c", "s", "v">>

DocstringFiles ==
    <<input_csv, input_2_csv, input_data_txt, input_dir_data_csv, my_input_csv,
      my_dir_input_csv>>

FileNames == {DocstringFiles[i] : i \in 1..6} \cup {input_input_csv, input_sub_input_csv}

\* the local_prefix and s3_prefix arguments
LocalPrefixes ==
    { <<"i", "n", "p", "u", "t">>, <<"i", "n", "p", "u", "t", "/">>, <<"i", "n", "p">>, <<"i", "n", "p", "u", "t", "-">>, <<"i", "n", "p", "u", "t", "/", "s">>, <<"m", "y">>, <<"d", "a", "t", "a">>,
      <<"/", "i", "n", "p", "u", "t">>, <<"/", "i", "n", "p", "u", "t", "/">> }

S3Prefixes == { <<"s", "3", ":", "/", "/", "m", "y", "-", "b", "u", "c", "k", "e", "t", "/", "d", "i", "r", "/", "i", "n", "p", "u", "t">>, <<"s", "3", ":", "/", "/", "m", "y", "-", "b", "u", "c", "k", "e", "t", "/", "i", "n", "p", "u", "t", "/">> }

UploadArg(local_prefix, s3_prefix) ==
    [local_prefix |-> local_prefix, s3_prefix |-> s3_prefix]

\* before the call: no file, or the files of the docstring's example
InitUpload ==
    /\ DefaultSession
    /\ pc = "ready" /\ op = "none" /\ ret = NoOutcome
    /\ arg = UploadArg(<<>>, <<>>)
    /\ trace = <<>> /\ s3 = <<>>
    /\ fs \in {<<>>, DocstringFiles}

\* the environment writes one more file
WriteFile ==
    /\ pc = "ready"
    /\ Len(fs) < MaxFiles
    /\ \E f \in FileNames :
          /\ \A i \in 1..Len(fs) : fs[i] # f
          /\ fs' = Append(fs, f)
    /\ UNCHANGED <<ctor, environ, self, pc, op, arg, ret, trace, s3>>

\* the call upload_local_data(local_prefix, s3_prefix)
UploadLocalData ==
    /\ pc = "ready"
    /\ \E local_prefix \in LocalPrefixes, s3_prefix \in S3Prefixes :
          LET done == upload_local_data(fs, local_prefix, s3_prefix)
          IN  /\ arg' = UploadArg(local_prefix, s3_prefix)
              /\ ret' = done.ret
              /\ trace' = done.trace
    /\ op' = "upload_local_data"
    /\ pc' = "done"
    /\ UNCHANGED <<ctor, environ, self, fs, s3>>

NextUpload == WriteFile \/ UploadLocalData

SpecUpload == InitUpload /\ [][NextUpload]_vars

(***************************************************************************)
(* list_keys, copy_s3_object and copy_s3_directory.                        *)
(*                                                                         *)
(* s3 lists the keys of bucket "b" in the order S3 lists them (ascending);  *)
(* every other bucket is empty.  list_objects_v2 answers with pages of      *)
(* PageSize keys; its ContinuationToken is the number of keys already       *)
(* listed (0: no token), and an answer without keys has no "Contents".      *)
(***************************************************************************)
\* objects the bucket may hold
MaxObjects == 3
\* keys in one page of a listing
PageSize == 2

\* the keys an object may have, in S3's listing order ("/" < "a" < "p")
KeyOrder == << <<"a", "/", "p">>, <<"p">>, <<"p", "/", "a">>, <<"p", "/", "p">>, <<"p", "p">> >>

\* the objects of a bucket
ObjectsOf(bucket) == IF bucket = <<"b">> THEN s3 ELSE <<>>

\* s3_client.list_objects_v2(Bucket, Prefix[, ContinuationToken]): one page
list_objects_v2(bucket, prefix, token) ==
    LET all == SelectSeq(ObjectsOf(bucket), LAMBDA k : StartsWith(k, prefix))
        last == IF token + PageSize < Len(all) THEN token + PageSize ELSE Len(all)
    IN  [hasContents |-> last > token,
         Contents |-> SubSeq(all, token + 1, last),
         IsTruncated |-> last < Len(all),
         NextContinuationToken |-> last]

ListObjects(bucket, prefix, token) ==
    [call |-> "list_objects_v2", args |-> <<bucket, prefix>>, token |-> token]
Copy(source_bucket, source_key, destination_bucket, destination_key) ==
    [call |-> "copy",
     args |-> <<source_bucket, source_key, destination_bucket, destination_key>>,
     token |-> 0]

RECURSIVE list_keys_from(_, _, _)
\* list_keys from the request with the given token on: the request, the keys of its
\* page (KeyError when the answer has no "Contents"), and the same for the next page
\* while the answer is truncated
list_keys_from(bucket, prefix, token) ==
    LET list_objects == list_objects_v2(bucket, prefix, token)
        request == ListObjects(bucket, prefix, token)
    IN  IF ~list_objects.hasContents
        THEN [trace |-> <<request>>, ret |-> Raise("KeyError")]
        ELSE IF ~list_objects.IsTruncated
        THEN [trace |-> <<request>>, ret |-> Return(list_objects.Contents)]
        ELSE LET more == list_keys_from(bucket, prefix,
                                        list_objects.NextContinuationToken)
             IN  [trace |-> <<request>> \o more.trace,
                  ret |-> IF more.ret.kind = "raise" THEN more.ret
                          ELSE Return(list_objects.Contents \o more.ret.val)]

\* AwsSession.list_keys(bucket, prefix)
list_keys(bucket, prefix) == list_keys_from(bucket, prefix, 0)

\* the two parse_s3_uri calls that open both copies: the parses made, and the
\* exception of the first that fails
parse_both(source, destination) ==
    LET src == parse_s3_uri(source)
        dst == parse_s3_uri(destination)
    IN  IF src.kind = "raise" THEN [trace |-> <<Parsed(source)>>, ret |-> src]
        ELSE [trace |-> <<Parsed(source), Parsed(destination)>>,
              ret |-> IF dst.kind = "raise" THEN dst
                      ELSE Return(<<src.val[1], src.val[2], dst.val[1], dst.val[2]>>)]

\* AwsSession.copy_s3_object(source_s3_uri, destination_s3_uri)
copy_s3_object(source_s3_uri, destination_s3_uri) ==
    IF source_s3_uri = destination_s3_uri THEN [trace |-> <<>>, ret |-> Return(<<>>)]
    ELSE LET p == parse_both(source_s3_uri, destination_s3_uri)
         IN  IF p.ret.kind = "raise" THEN p
             ELSE [trace |-> p.trace \o <<Copy(p.ret.val[1], p.ret.val[2],
                                               p.ret.val[3], p.ret.val[4])>>,
                   ret |-> Return(<<>>)]

\* the destination key with every occurrence of the source prefix replaced
destination_key_all(key, source_prefix, destination_prefix) ==
    replace(key, source_prefix, destination_prefix, -1)

\* key.replace(source_prefix, destination_prefix, 1)
destination_key(key, source_prefix, destination_prefix) ==
    replace(key, source_prefix, destination_prefix, 1)

\* the s3_client.copy calls of copy_s3_directory's loop over source_keys
copy_keys(source_bucket, source_prefix, destination_bucket, destination_prefix, source_keys) ==
    [i \in 1..Len(source_keys) |->
       Copy(source_bucket, source_keys[i], destination_bucket,
            destination_key(source_keys[i], source_prefix, destination_prefix))]

\* copy_s3_directory after list_keys: its exception, or a copy for each key
copy_listed(source_bucket, source_prefix, destination_bucket, destination_prefix, listed) ==
    IF listed.ret.kind = "raise" THEN listed
    ELSE [trace |-> listed.trace
                    \o copy_keys(source_bucket, source_prefix, destination_bucket,
                                 destination_prefix, listed.ret.val),
          ret |-> Return(<<>>)]

\* copy_s3_directory after the two parses: their exception, or the listing and copies
copy_parsed(parsed) ==
    IF parsed.ret.kind = "raise" THEN parsed
    ELSE LET listed == copy_listed(parsed.ret.val[1], parsed.ret.val[2],
                                   parsed.ret.val[3], parsed.ret.val[4],
                                   list_keys(parsed.ret.val[1], parsed.ret.val[2]))
         IN  [trace |-> parsed.trace \o listed.trace, ret |-> listed.ret]

\* copy_s3_directory without the test for equal URIs
copy_s3_directory_always(source_s3_path, destination_s3_path) ==
    copy_parsed(parse_both(source_s3_path, destination_s3_path))

\* AwsSession.copy_s3_directory(source_s3_path, destination_s3_path)
copy_s3_directory(source_s3_path, destination_s3_path) ==
    IF source_s3_path = destination_s3_path THEN [trace |-> <<>>, ret |-> Return(<<>>)]
    ELSE copy_parsed(parse_both(source_s3_path, destination_s3_path))

\* the source and destination arguments: URIs of both forms, and a string that is none
CopyUris ==
    { <<"s", "3", ":", "/", "/", "b", "/", "p">>, <<"s", "3", ":", "/", "/", "b", "/", "p", "/">>, <<"S", "3", ":", "/", "/", "b", "/", "p">>, <<"h", "t", "t", "p", "s", ":", "/", "/", "b", ".", "s", "3", ".", "h", "/", "p">>, <<"s", "3", ":", "/", "/", "b", "/", "a">>,
      <<"s", "3", ":", "/", "/", "c", "/", "q">>, <<"b", "/", "p">> }

CopyArg(source, destination) == [source |-> source, destination |-> destination]

InitCopy ==
    /\ DefaultSession
    /\ pc = "ready" /\ op = "none" /\ ret = NoOutcome
    /\ arg = CopyArg(<<>>, <<>>)
    /\ trace = <<>> /\ fs = <<>> /\ s3 = <<>>

\* the environment puts one more object into bucket "b"
PutObject ==
    /\ pc = "ready"
    /\ Len(s3) < MaxObjects
    /\ \E n \in 1..Len(KeyOrder) :
          /\ \A i \in 1..Len(s3) : s3[i] # KeyOrder[n]
          /\ s3' = SelectSeq(KeyOrder,
                             LAMBDA k : k = KeyOrder[n] \/ \E i \in 1..Len(s3) : s3[i] = k)
    /\ UNCHANGED <<ctor, environ, self, pc, op, arg, ret, trace, fs>>

\* the call copy_s3_object(source_s3_uri, destination_s3_uri)
CopyS3Object ==
    /\ pc = "ready"
    /\ \E source \in CopyUris, destination \in CopyUris :
          LET done == copy_s3_object(source, destination)
          IN  /\ arg' = CopyArg(source, destination)
              /\ ret' = done.ret
              /\ trace' = done.trace
    /\ op' = "copy_s3_object"
    /\ pc' = "done"
    /\ UNCHANGED <<ctor, environ, self, fs, s3>>

\* the call copy_s3_directory(source_s3_path, destination_s3_path)
CopyS3Directory ==
    /\ pc = "ready"
    /\ \E source \in CopyUris, destination \in CopyUris :
          LET done == copy_s3_directory(source, destination)
          IN  /\ arg' = CopyArg(source, destination)
              /\ ret' = done.ret
              /\ trace' = done.trace
    /\ op' = "copy_s3_directory"
    /\ pc' = "done"
    /\ UNCHANGED <<ctor, environ, self, fs, s3>>

NextCopy == PutObject \/ CopyS3Object \/ CopyS3Directory

SpecCopy == InitCopy /\ [][NextCopy]_vars

(***************************************************************************)
(* default_bucket and _create_s3_bucket_if_it_does_not_exist.              *)
(*                                                                         *)
(* In SpecBucket trace holds the requests of all calls made so far.  The    *)
(* answers of STS and S3 are inputs of a call: whether get_caller_identity  *)
(* fails, which of the three bucket requests fails (0: none), and with      *)
(* which error.                                                            *)
(***************************************************************************)
\* requests the session has made when a further default_bucket call may start
MaxRequests == 4

\* the account STS reports
Account == "123456789012"

Request(call, args) == [call |-> call, args |-> args, token |-> 0]

\* AwsSession.account_id: the cached id, or the one get_caller_identity answers with
account_id(session, sts) ==
    IF session._account_id # None
    THEN [self |-> session, trace |-> <<>>, ret |-> Return(session._account_id)]
    ELSE IF sts = "ClientError"
    THEN [self |-> session, trace |-> <<Request("get_caller_identity", <<>>)>>,
          ret |-> Raise("ClientError")]
    ELSE [self |-> [session EXCEPT !._account_id = <<Account>>],
          trace |-> <<Request("get_caller_identity", <<>>)>>,
          ret |-> Return(<<Account>>)]

\* the three requests of _create_s3_bucket_if_it_does_not_exist, in order; us-east-1
\* is created without a LocationConstraint
bucket_requests(bucket_name, region) ==
    << Request("create_bucket",
               IF region = "us-east-1" THEN <<bucket_name>> ELSE <<bucket_name, <<region>>>>),
       Request("put_public_access_block", <<bucket_name>>),
       Request("put_bucket_policy", <<bucket_name>>) >>

\* the except clause: the errors swallowed, turned into ValueError, or raised again
on_client_error(error) ==
    IF \/ error.Code = "BucketAlreadyOwnedByYou"
       \/ /\ error.Code # "BucketAlreadyExists"
          /\ error.Code = "OperationAborted"
          /\ error.conflicting
    THEN Return(<<>>)
    ELSE IF error.Code = "BucketAlreadyExists" THEN Raise("ValueError")
    ELSE Raise("ClientError")

\* AwsSession._create_s3_bucket_if_it_does_not_exist(bucket_name, region)
_create_s3_bucket_if_it_does_not_exist(bucket_name, region, failed, error) ==
    [trace |-> IF failed = 0 THEN bucket_requests(bucket_name, region)
               ELSE SubSeq(bucket_requests(bucket_name, region), 1, failed),
     ret |-> IF failed = 0 THEN Return(<<>>) ELSE on_client_error(error)]

\* f"amazon-braket-{self.region}-{self.account_id}"
default_bucket_name(region, account) == <<"amazon-braket-", region, "-">> \o account

\* default_bucket with the name recorded before the bucket is created
default_bucket_recorded(session, requested, default_bucket, created) ==
    [self |-> [session EXCEPT !._default_bucket = default_bucket],
     trace |-> requested \o created.trace,
     ret |-> IF created.ret.kind = "raise" THEN created.ret ELSE Return(default_bucket)]

\* default_bucket after the creation: its exception, or the name recorded and returned
default_bucket_created(session, requested, default_bucket, created) ==
    [self |-> IF created.ret.kind = "raise" THEN session
              ELSE [session EXCEPT !._default_bucket = default_bucket],
     trace |-> requested \o created.trace,
     ret |-> IF created.ret.kind = "raise" THEN created.ret ELSE Return(default_bucket)]

\* default_bucket after the account id is read: its exception, or the creation
default_bucket_for(account, failed, error) ==
    IF account.ret.kind = "raise" THEN account
    ELSE default_bucket_created(
             account.self, account.trace,
             default_bucket_name(account.self.region, account.ret.val),
             _create_s3_bucket_if_it_does_not_exist(
                 default_bucket_name(account.self.region, account.ret.val),
                 account.self.region, failed, error))

\* AwsSession.default_bucket
default_bucket(session, sts, failed, error) ==
    IF session._default_bucket # None
    THEN [self |-> session, trace |-> <<>>, ret |-> Return(session._default_bucket)]
    ELSE default_bucket_for(account_id(session, sts), failed, error)

\* the errors S3 answers a bucket request with
ClientErrors ==
    { [Code |-> "BucketAlreadyOwnedByYou", conflicting |-> FALSE],
      [Code |-> "BucketAlreadyExists", conflicting |-> FALSE],
      [Code |-> "OperationAborted", conflicting |-> TRUE],
      [Code |-> "OperationAborted", conflicting |-> FALSE],
      [Code |-> "AccessDenied", conflicting |-> FALSE] }

NoError == [Code |-> "none", conflicting |-> FALSE]

\* after construction: with or without a default_bucket argument, in or outside a
\* hybrid job, in either kind of region
InitBucket ==
    /\ pc = "ready" /\ op = "none" /\ ret = NoOutcome /\ arg = <<>>
    /\ trace = <<>> /\ fs = <<>> /\ s3 = <<>>
    /\ \E bucket \in {None, <<"my-bucket">>}, out_s3_bucket \in {None, <<"job-bucket">>},
          region_name \in {"us-east-1", "us-west-2"} :
          /\ ctor = CtorArg(bucket)
          /\ environ = out_s3_bucket
          /\ self = AwsSession(bucket, out_s3_bucket, region_name)

\* a call of default_bucket in which every request succeeds
DefaultBucket ==
    /\ pc = "ready"
    /\ Len(trace) < MaxRequests
    /\ LET done == default_bucket(self, "ok", 0, NoError)
       IN  /\ self' = done.self
           /\ trace' = trace \o done.trace
           /\ ret' = done.ret
    /\ op' = "default_bucket"
    /\ UNCHANGED <<pc, arg, fs, s3, ctor, environ>>

\* a call of default_bucket in which get_caller_identity or a bucket request fails
DefaultBucketFails ==
    /\ pc = "ready"
    /\ Len(trace) < MaxRequests
    /\ \E sts \in {"ok", "ClientError"}, failed \in 1..3, error \in ClientErrors :
          LET done == default_bucket(self, sts, failed, error)
          IN  /\ self' = done.self
              /\ trace' = trace \o done.trace
              /\ ret' = done.ret
    /\ op' = "default_bucket"
    /\ UNCHANGED <<pc, arg, fs, s3, ctor, environ>>

NextBucket == DefaultBucket \/ DefaultBucketFails

SpecBucket == InitBucket /\ [][NextBucket]_vars

(***************************************************************************)
(* search_devices.                                                         *)
(*                                                                         *)
(* A filter argument is Unset (Python's None) or a list, which may be       *)
(* empty.  The pages are those the search_devices paginator yields.         *)
(***************************************************************************)
\* devices in the pages of one search
MaxDevices == 3

Unset == [is_none |-> TRUE, values |-> <<>>]
List(values) == [is_none |-> FALSE, values |-> values]

\* Python's truth test of a filter argument: not None and not empty
Truthy(filter) == ~filter.is_none /\ filter.values # <<>>

\* value in filter
In(value, filter) == \E i \in 1..Len(filter.values) : filter.values[i] = value

Device(name, type, status, provider) ==
    [deviceName |-> name, deviceType |-> type, deviceStatus |-> status,
     providerName |-> provider]

\* the devices the service knows
Devices ==
    { Device("n1", "QPU", "ONLINE", "p1"), Device("n2", "QPU", "RETIRED", "p1"),
      Device("n1", "SIMULATOR", "OFFLINE", "p2"), Device("n2", "SIMULATOR", "RETIRED", "p2") }

RECURSIVE DevicesOfLen(_)
\* the sequences of n devices
DevicesOfLen(n) ==
    IF n = 0 THEN {<<>>}
    ELSE {<<d>> \o s : d \in Devices, s \in DevicesOfLen(n - 1)}

\* the loop body of search_devices: the result is skipped (continue) or appended
appended(result, names, types, statuses, provider_names) ==
    /\ ~(Truthy(names) /\ ~In(result.deviceName, names))
    /\ ~(Truthy(types) /\ ~In(result.deviceType, types))
    /\ ~(Truthy(statuses) /\ ~In(result.deviceStatus, statuses))
    /\ ~(statuses.is_none /\ result.deviceStatus = "RETIRED")
    /\ ~(Truthy(provider_names) /\ ~In(result.providerName, provider_names))

\* the filters given to paginator.paginate
paginate_filters(arns) ==
    IF Truthy(arns) THEN <<[name |-> "deviceArn", values |-> arns.values]>> ELSE <<>>

\* AwsSession.search_devices(arns, names, types, statuses, provider_names), the
\* paginator yielding the pages
search_devices(pages, arns, names, types, statuses, provider_names) ==
    [trace |-> <<Request("search_devices", paginate_filters(arns))>>,
     ret |-> Return(SelectSeq(Concat(pages),
                              LAMBDA result : appended(result, names, types, statuses,
                                                       provider_names)))]

SearchArg(pages, arns, names, types, statuses, provider_names) ==
    [pages |-> pages, arns |-> arns, names |-> names, types |-> types,
     statuses |-> statuses, provider_names |-> provider_names]

StatusFilters ==
    { Unset, List(<<>>), List(<<"ONLINE">>), List(<<"ONLINE", "RETIRED">>) }

InitDevices ==
    /\ DefaultSession
    /\ pc = "ready" /\ op = "none" /\ ret = NoOutcome
    /\ arg = SearchArg(<<>>, Unset, Unset, Unset, Unset, Unset)
    /\ trace = <<>> /\ fs = <<>> /\ s3 = <<>>

\* the call search_devices(...), the service answering with two pages of up to
\* MaxDevices devices in all
SearchDevices ==
    /\ pc = "ready"
    /\ \E n \in 0..MaxDevices : \E cut \in 0..n : \E found \in DevicesOfLen(n) :
       \E arns \in {Unset, List(<<"arn1">>)}, names \in {Unset, List(<<>>), List(<<"n1">>)},
          types \in {Unset, List(<<"QPU">>)}, statuses \in StatusFilters,
          provider_names \in {Unset, List(<<"p1">>)} :
          LET pages == <<SubSeq(found, 1, cut), SubSeq(found, cut + 1, n)>>
              done == search_devices(pages, arns, names, types, statuses, provider_names)
          IN  /\ arg' = SearchArg(pages, arns, names, types, statuses, provider_names)
              /\ ret' = done.ret
              /\ trace' = done.trace
    /\ op' = "search_devices"
    /\ pc' = "done"
    /\ UNCHANGED <<fs, s3, ctor, environ, self>>

NextDevices == SearchDevices

SpecDevices == InitDevices /\ [][NextDevices]_vars

(***************************************************************************)
(* list_keys called on its own, on the object store of the copies.         *)
(***************************************************************************)
ListArg(bucket, prefix) == [bucket |-> bucket, prefix |-> prefix]

InitList ==
    /\ DefaultSession
    /\ pc = "ready" /\ op = "none" /\ ret = NoOutcome
    /\ arg = ListArg(<<>>, <<>>)
    /\ trace = <<>> /\ fs = <<>> /\ s3 = <<>>

\* the call list_keys(bucket, prefix): the bucket with the objects or an empty one; a
\* prefix that some, all or none of the keys start with
ListKeys ==
    /\ pc = "ready"
    /\ \E bucket \in {<<"b">>, <<"c">>}, prefix \in {<<>>, <<"p">>, <<"p", "/">>, <<"a">>, <<"q">>} :
          LET done == list_keys(bucket, prefix)
          IN  /\ arg' = ListArg(bucket, prefix)
              /\ ret' = done.ret
              /\ trace' = done.trace
    /\ op' = "list_keys"
    /\ pc' = "done"
    /\ UNCHANGED <<fs, s3, ctor, environ, self>>

NextList == PutObject \/ ListKeys

SpecList == InitList /\ [][NextList]_vars

(***************************************************************************)
(* add_braket_user_agent.                                                  *)
(***************************************************************************)
\* values the User-Agent header may hold when a further value is passed
MaxAgents == 6

\* sub in s, of two str
Contains(s, sub) ==
    \E i \in 0..(Len(s) - Len(sub)) : SubSeq(s, i + 1, i + Len(sub)) = sub

RECURSIVE SplitAt(_, _)
\* s.split(sep), sep one character
SplitAt(s, sep) ==
    IF ~(\E p \in 1..Len(s) : s[p] = sep) THEN <<s>>
    ELSE LET i == CHOOSE p \in 1..Len(s) : s[p] = sep /\ \A q \in 1..(p - 1) : s[q] # sep
         IN  <<SubSeq(s, 1, i - 1)>> \o SplitAt(SubSeq(s, i + 1, Len(s)), sep)

\* AwsSession.add_braket_user_agent(user_agent): the header, and the braket client
\* made anew with the header in its config
add_braket_user_agent(session, user_agent) ==
    LET agents == IF ~Contains(session._braket_user_agents, user_agent)
                  THEN session._braket_user_agents \o <<" ">> \o user_agent
                  ELSE session._braket_user_agents
    IN  [session EXCEPT !._braket_user_agents = agents,
                        !.braket_client = [user_agent_extra |-> agents]]

\* the values libraries pass
UserAgents ==
    { <<"a">>, <<"a", "b">>, <<"b">>, <<"S", "d", "k", "/", "1">>, <<"x", "/", "2">>,
      <<"y", "/", "3">>, <<"z", "/", "4">>, <<"w", "/", "5">> }

AgentArg(user_agent) == [user_agent |-> user_agent]

InitAgent ==
    /\ DefaultSession
    /\ pc = "ready" /\ op = "none" /\ ret = NoOutcome
    /\ arg = AgentArg(<<>>)
    /\ trace = <<>> /\ fs = <<>> /\ s3 = <<>>

\* the call add_braket_user_agent(user_agent)
AddBraketUserAgent ==
    /\ pc = "ready"
    /\ Len(SplitAt(self._braket_user_agents, " ")) < MaxAgents
    /\ \E user_agent \in UserAgents :
          /\ arg' = AgentArg(user_agent)
          /\ self' = add_braket_user_agent(self, user_agent)
    /\ op' = "add_braket_user_agent"
    /\ ret' = Return(<<>>)
    /\ UNCHANGED <<pc, trace, fs, s3, ctor, environ>>

NextAgent == AddBraketUserAgent

SpecAgent == InitAgent /\ [][NextAgent]_vars

(***************************************************************************)
(* Properties of the URI functions.                                        *)
(***************************************************************************)
Has(s, c) == \E p \in 1..Len(s) : s[p] = c

\* the call under check: parse_s3_uri(construct_s3_uri(bucket, seg1, seg2)) has run
RoundTripDone == op = "parse_s3_uri" /\ Len(arg.dirs) = 2

RoundTripKey == arg.dirs[1] \o <<"/">> \o arg.dirs[2]

C2_IsS3UriIffParses ==
    op = "is_s3_uri" =>
        /\ ret.kind = "return"
        /\ ret.val = <<TRUE>> <=> parse_s3_uri(arg.s3_uri).kind = "return"
        /\ ret.val = <<FALSE>> <=> parse_s3_uri(arg.s3_uri).kind = "raise"

\* C2's case: is_s3_uri answered False for a path-style string with a dotted bucket
C2_Witness ==
    /\ op = "is_s3_uri"
    /\ arg.s3_uri = <<"s", "3", ":", "/", "/", "a", ".", "/", "a">>
    /\ ret = Return(<<FALSE>>)

\* C3: for every non-empty bucket b without "." or "/", non-empty key k and non-empty
\* slash-free host suffix h, parse_s3_uri("https://b.s3.h/k") and
\* parse_s3_uri("s3://b/k") both return (b, k), "s3" in either letter case.
C3_BothFormsNormalize ==
    (op = "parse_s3_uri" /\ arg.form \in {"virtual-hosted", "path-style"})
    => ret = Return(<<arg.bucket, arg.key>>)

\* s is "<s3>://<bucket>/<key>": a non-empty bucket without "." or "/", a non-empty key
IsPathStyle(s) ==
    \E i \in 7..(Len(s) - 1) :
        /\ s[1] \in {"s", "S"} /\ SubSeq(s, 2, 5) = <<"3", ":", "/", "/">>
        /\ s[i] = "/"
        /\ \A p \in 6..(i - 1) : s[p] \notin {".", "/"}

\* s is "https://<bucket>.<s3>.<host>/<key>": bucket and key as above, a non-empty
\* host without "/"
IsVirtualHosted(s) ==
    \E d \in 10..Len(s), i \in 10..(Len(s) - 1) :
        /\ SubSeq(s, 1, 8) = <<"h", "t", "t", "p", "s", ":", "/", "/">>
        /\ \A p \in 9..(d - 1) : s[p] \notin {".", "/"}
        /\ d + 4 < i
        /\ s[d] = "." /\ s[d + 1] \in {"s", "S"} /\ s[d + 2] = "3" /\ s[d + 3] = "."
        /\ \A p \in (d + 4)..(i - 1) : s[p] # "/"
        /\ s[i] = "/"

\* C4: parse_s3_uri returns only for strings of the virtual-hosted or path-style form,
\* every returned pair has a non-empty bucket with neither "." nor "/" and a non-empty
\* key, and for every other string it raises ValueError.
C4_ParseOnlyRecognizedForms ==
    op = "parse_s3_uri" =>
        /\ ret.kind = "return" =>
              /\ IsVirtualHosted(arg.s3_uri) \/ IsPathStyle(arg.s3_uri)
              /\ Len(ret.val) = 2
              /\ ret.val[1] # <<>> /\ ~Has(ret.val[1], ".") /\ ~Has(ret.val[1], "/")
              /\ ret.val[2] # <<>>
        /\ ret.kind # "return" => ret = Raise("ValueError")
        /\ ~(IsVirtualHosted(arg.s3_uri) \/ IsPathStyle(arg.s3_uri))
              => ret = Raise("ValueError")

\* C4's case: a string whose bucket part holds a dot was refused with ValueError
C4_Witness ==
    /\ op = "parse_s3_uri"
    /\ arg.s3_uri = <<"s", "3", ":", "/", "/", "a", ".", "/", "a">>
    /\ ret = Raise("ValueError")

RECURSIVE SegStart(_, _, _)
\* where segment i starts in the result: after "s3://", the bucket, a slash, and the
\* segments before it, each followed by a slash
SegStart(bucket, dirs, i) ==
    IF i = 1 THEN 5 + Len(bucket) + 1 + 1
    ELSE SegStart(bucket, dirs, i - 1) + Len(dirs[i - 1]) + 1

\* C5: construct_s3_uri(bucket, segments) raises ValueError when segments is empty,
\* and otherwise returns exactly "s3://" + bucket + "/" + the segments joined by "/"
\* in their given order.
C5_ConstructJoinsInOrder ==
    op = "construct_s3_uri" =>
        IF arg.dirs = <<>> THEN ret = Raise("ValueError")
        ELSE /\ ret.kind = "return"
             /\ LET u == ret.val[1]
                    n == Len(arg.dirs)
                IN  /\ Lit(u, 1, <<"s", "3", ":", "/", "/">>)
                    /\ Lit(u, 6, arg.bucket)
                    /\ Lit(u, 6 + Len(arg.bucket), <<"/">>)
                    /\ \A i \in 1..n :
                          /\ Lit(u, SegStart(arg.bucket, arg.dirs, i), arg.dirs[i])
                          /\ i < n => Lit(u, SegStart(arg.bucket, arg.dirs, i + 1) - 1, <<"/">>)
                    /\ Len(u) = SegStart(arg.bucket, arg.dirs, n) + Len(arg.dirs[n]) - 1

\* C5's case: two different segments were joined
C5_Witness ==
    /\ op = "construct_s3_uri"
    /\ arg.bucket = <<"a">> /\ arg.dirs = <<<<".">>, <<"a">>>>
    /\ ret = Return(<< <<"s", "3", ":", "/", "/", "a", "/", ".", "/", "a">> >>)

(***************************************************************************)
(* Properties of upload_local_data.                                        *)
(***************************************************************************)
\* the upload requests of the call, in order
Uploads == SelectSeq(trace, LAMBDA e : e.call = "upload_file")

\* a file's path as the call names it: from the root for an absolute local_prefix,
\* from the working directory otherwise
Shown(f) == IF is_absolute(arg.local_prefix) THEN <<"/">> \o f ELSE f

\* the paths of the directories a file is inside of
DirsAbove(f) ==
    {Join(<<"/">>, SubSeq(PathParts(f), 1, i)) : i \in 1..(Len(PathParts(f)) - 1)}

\* (a) the file's path starts with the literal local_prefix, or (b) the file is inside
\* a directory whose path does
PrefixSelects(f) ==
    \/ StartsWith(Shown(f), arg.local_prefix)
    \/ \E d \in DirsAbove(f) : StartsWith(Shown(d), arg.local_prefix)

\* C6: upload_local_data uploads, each exactly once, precisely the regular files whose
\* path starts with the literal local_prefix or that are inside a directory whose name
\* starts with it; no directory and no file that holds the prefix elsewhere is
\* uploaded, and the docstring's six files with prefix "input" give four uploads.
C6_UploadsExactlyPrefixedFiles ==
    op = "upload_local_data" =>
        /\ ret = Return(<<>>)
        /\ \A i, j \in 1..Len(Uploads) : Uploads[i].args[1] = Uploads[j].args[1] => i = j
        /\ {Uploads[i].args[1] : i \in 1..Len(Uploads)}
             = {Shown(fs[i]) : i \in {j \in 1..Len(fs) : PrefixSelects(fs[j])}}
        /\ (fs = DocstringFiles /\ arg.local_prefix = <<"i", "n", "p", "u", "t">>)
             => {Uploads[i].args[1] : i \in 1..Len(Uploads)}
                  = {input_csv, input_2_csv, input_data_txt, input_dir_data_csv}

\* C7: for each file upload_local_data uploads, the URI given to the upload is the
\* file's path with only the first occurrence of local_prefix replaced by s3_prefix
\* (stated for a local_prefix that as_posix() leaves as it is, as "input" in the
\* claim's example).
C7_OnlyFirstOccurrenceReplaced ==
    (op = "upload_local_data" /\ as_posix(arg.local_prefix) = arg.local_prefix) =>
        \A i \in 1..Len(trace) :
            trace[i].call = "upload_file" =>
                /\ i > 1
                /\ trace[i - 1] =
                     Parsed(replace(trace[i].args[1], arg.local_prefix, arg.s3_prefix, 1))

\* C8: with local_prefix "input/" and s3_prefix "s3://my-bucket/input/", every regular
\* file inside the directory "input" is uploaded to bucket "my-bucket" under the key
\* "input/" followed by its path relative to "input".
C8_DirectoryExample ==
    (/\ op = "upload_local_data"
     /\ arg.local_prefix = <<"i", "n", "p", "u", "t", "/">>
     /\ arg.s3_prefix = <<"s", "3", ":", "/", "/", "m", "y", "-", "b", "u", "c", "k", "e", "t", "/", "i", "n", "p", "u", "t", "/">>)
    => {Uploads[i].args : i \in 1..Len(Uploads)}
         = {<<fs[i], <<"m", "y", "-", "b", "u", "c", "k", "e", "t">>, fs[i]>>
              : i \in {j \in 1..Len(fs) : StartsWith(fs[j], <<"i", "n", "p", "u", "t", "/">>)}}

(***************************************************************************)
(* Properties of the copies.                                               *)
(***************************************************************************)
\* the copy requests of the call, in order
Copies == SelectSeq(trace, LAMBDA e : e.call = "copy")

\* the keys of bucket "b" that start with the prefix, in listing order
KeysUnder(bucket, prefix) ==
    IF bucket = <<"b">> THEN SelectSeq(s3, LAMBDA k : StartsWith(k, prefix)) ELSE <<>>

\* the key with its leading prefix exchanged and the rest of it kept
Moved(key, source_prefix, destination_prefix) ==
    destination_prefix \o SubSeq(key, Len(source_prefix) + 1, Len(key))

\* C9: copy_s3_directory with different source and destination URIs issues exactly one
\* copy per key of the listing of (source bucket, source prefix), in listing order,
\* from (source bucket, key) to (destination bucket, the key with the first occurrence
\* of the source prefix replaced by the destination prefix and the later ones kept).
C9_OneCopyPerListedKey ==
    (op = "copy_s3_directory" /\ arg.source # arg.destination) =>
        LET src == parse_s3_uri(arg.source)
            dst == parse_s3_uri(arg.destination)
        IN  IF src.kind = "return" /\ dst.kind = "return"
            THEN LET keys == KeysUnder(src.val[1], src.val[2])
                 IN  Copies = [i \in 1..Len(keys) |->
                                 Copy(src.val[1], keys[i], dst.val[1],
                                      Moved(keys[i], src.val[2], dst.val[2]))]
            ELSE Copies = <<>>

\* C9's case: three keys under "p", listed in two pages, copied to "q" in bucket "c";
\* "p/p" and "pp" hold the prefix twice
C9_Witness ==
    /\ op = "copy_s3_directory"
    /\ arg = CopyArg(<<"s", "3", ":", "/", "/", "b", "/", "p">>, <<"s", "3", ":", "/", "/", "c", "/", "q">>)
    /\ s3 = << <<"p">>, <<"p", "/", "p">>, <<"p", "p">> >>
    /\ Copies = << Copy(<<"b">>, <<"p">>, <<"c">>, <<"q">>),
                   Copy(<<"b">>, <<"p", "/", "p">>, <<"c">>, <<"q", "/", "p">>),
                   Copy(<<"b">>, <<"p", "p">>, <<"c">>, <<"q", "p">>) >>
    /\ ret = Return(<<>>)

\* C10: when the source and destination URIs are textually identical, copy_s3_object
\* and copy_s3_directory parse no URI, issue no listing and no copy request, and raise
\* no error, whatever the text is.
C10_SameUriDoesNothing ==
    (op \in {"copy_s3_object", "copy_s3_directory"} /\ arg.source = arg.destination)
    => trace = <<>> /\ ret = Return(<<>>)

\* C10's case: copy_s3_directory called with the same string twice, a string that is
\* no S3 URI, while the bucket holds objects
C10_Witness ==
    /\ op = "copy_s3_directory"
    /\ arg = CopyArg(<<"b", "/", "p">>, <<"b", "/", "p">>)
    /\ s3 # <<>>
    /\ trace = <<>> /\ ret = Return(<<>>)

(***************************************************************************)
(* Properties of default_bucket.                                           *)
(***************************************************************************)
\* C11: default_bucket returns the constructor's default_bucket when it is set, else
\* the hybrid job's bucket (AMZN_BRAKET_OUT_S3_BUCKET) when it is set, else
\* "amazon-braket-<account id>-<region>": the account id followed by the region.
C11_DefaultBucketPriority ==
    (op = "default_bucket" /\ ret.kind = "return") =>
        ret.val = IF ctor.default_bucket # None THEN ctor.default_bucket
                  ELSE IF environ # None THEN environ
                  ELSE <<"amazon-braket-", Account, "-", self.region>>

\* the requests of the call that the step is, and whether one creates a bucket
Made == SubSeq(trace', Len(trace) + 1, Len(trace'))
Creates == \E i \in 1..Len(Made) : Made[i].call = "create_bucket"

\* what C12 says of one call, for a session whose name was not specified: the first
\* call that returns has requested the creation; a call that raises leaves no name
\* recorded; a call that returns without a recorded name has requested the creation
\* and records the name it returns; with a name recorded, a call returns it and
\* requests nothing
CallCreatesOnce ==
    /\ (op = "none" /\ ret'.kind = "return") => Creates
    /\ IF self._default_bucket = None
       THEN /\ ret'.kind = "raise" => self'._default_bucket = None
            /\ ret'.kind = "return" =>
                 Creates /\ ret'.val # None /\ self'._default_bucket = ret'.val
       ELSE Made = <<>> /\ ret' = Return(self._default_bucket) /\ self' = self

\* what C12 says of one call, for a session whose name was specified
CallNeverCreates ==
    Made = <<>> /\ ret' = Return(self._default_bucket) /\ self' = self

Satisfies(d) ==
    /\ Truthy(arg.names) => In(d.deviceName, arg.names)
    /\ Truthy(arg.types) => In(d.deviceType, arg.types)
    /\ Truthy(arg.statuses) => In(d.deviceStatus, arg.statuses)
    /\ Truthy(arg.provider_names) => In(d.providerName, arg.provider_names)
    /\ d.deviceStatus = "RETIRED" => In("RETIRED", arg.statuses)

\* C13: search_devices returns, in page order, exactly the devices of the pages that
\* satisfy all given filters (names, types, statuses, provider_names); no RETIRED
\* device is returned when statuses is None, and a RETIRED device is returned only
\* when the statuses filter includes "RETIRED".
C13_FilteredInPageOrder ==
    op = "search_devices" =>
        ret = Return(SelectSeq(arg.pages[1] \o arg.pages[2], Satisfies))

(***************************************************************************)
(* Properties of list_keys.                                                *)
(***************************************************************************)
\* the pages of a listing of n keys: one page when there is no key
PagesOf(n) == IF n = 0 THEN 1 ELSE (n + PageSize - 1) \div PageSize

\* C14: list_keys returns exactly the keys of all pages in page order, a result that is
\* empty when no key matches the prefix; it requests the first page without a
\* continuation token and each following page with the token of the page just
\* received, and stops after the first page that is not truncated.
C14_ListsAllPages ==
    op = "list_keys" =>
        LET keys == KeysUnder(arg.bucket, arg.prefix)
        IN  /\ ret = Return(keys)
            /\ trace = [i \in 1..PagesOf(Len(keys)) |->
                          ListObjects(arg.bucket, arg.prefix, (i - 1) * PageSize)]

(***************************************************************************)
(* Properties of add_braket_user_agent.                                    *)
(***************************************************************************)
\* the space-delimited values of the header
HeaderValues(session) == SplitAt(session._braket_user_agents, " ")

\* the value is one of the header's values
Present(session, v) ==
    \E i \in 1..Len(HeaderValues(session)) : HeaderValues(session)[i] = v

\* no value is in the header twice
NoneTwice(session) ==
    \A i, j \in 1..Len(HeaderValues(session)) :
        HeaderValues(session)[i] = HeaderValues(session)[j] => i = j

\* C15: add_braket_user_agent(v) appends v to the header exactly when v is not yet one
\* of its values: after the call v is a space-delimited value of the header and no
\* value is in it twice, the values that were there stay, and a call with a value
\* already in the header leaves the string unchanged.
C15_AppendsNewValuesOnce ==
    [][op' = "add_braket_user_agent" =>
         /\ IF Present(self, arg'.user_agent)
            THEN self'._braket_user_agents = self._braket_user_agents
            ELSE self'._braket_user_agents =
                     self._braket_user_agents \o <<" ">> \o arg'.user_agent
         /\ Present(self', arg'.user_agent)
         /\ NoneTwice(self')]_vars

====
